---- MODULE Spec2Model ----
(***************************************************************************)
(* The job scheduling and execution engine of social-scheduler             *)
(* (src/src/app.js, class SocialSchedulerApp): arming of cron triggers,    *)
(* execution of a post on every target platform, the active-jobs map and   *)
(* the graceful shutdown with its bounded drain.                           *)
(*                                                                         *)
(* One action is one run-to-completion segment of the Node.js event loop:  *)
(* the code of a handler between two awaits.  Calls to the collaborators   *)
(* (file reader, content processor, Meta client, node-cron's stop()) are   *)
(* resolved by a nondeterministic choice between returning and throwing.   *)
(***************************************************************************)
EXTENDS Integers, Sequences, FiniteSets, Bags, TLC

\* ------------------------------------------------------------------ bounds
MaxJobs == 2         \* descriptors (posts and recurring) in the schedule document
MaxExecs == 2        \* invocations of executePost in flight together
MaxDrained == 1      \* invocations in flight when shutdown is first called
Horizon == 30        \* hours over which the next firing of a trigger is looked for
MaxBurst == 6        \* posts due at the same instant in a burst
MaxTicks == 3        \* steps of the clock the request counters are followed for

\* ------------------------------------------------------- program constants
shutdownTimeout == 30000
pollInterval == 1000
maxConcurrentJobs == 5   \* queue.settings.maxConcurrentJobs
maxRequestsPerHour == 200
rateLimitWindow == 3600000   \* the length of a window of the request counters

\* ------------------------------------------------------------------ inputs
\* The descriptors of the schedule document are drawn from these sets; a
\* document may hold the same descriptor, and so the same id, more than once.
\* source "inline": postConfig.content is set; "file": only postConfig.file
\* is set, and executePost reads the content from the file; "template": the
\* content of a recurring template has placeholders, and variables is set.
\* trigger is the scheduledTime of a post or the cronPattern of a recurring
\* template: "ok"; "missing"; "lenient": a scheduledTime that moment's
\* forgiving parse accepts and new Date() makes an Invalid Date of;
\* "invalid": a cronPattern that is no cron expression.
PostConfigs ==
  { [id |-> "a", platforms |-> <<"facebook", "instagram">>, source |-> "inline",
     trigger |-> "ok"],
    [id |-> "b", platforms |-> <<"facebook">>, source |-> "inline",
     trigger |-> "lenient"],
    [id |-> "c", platforms |-> <<"facebook">>, source |-> "inline",
     trigger |-> "missing"] }
RecurringConfigs ==
  { [id |-> "r", platforms |-> <<"facebook">>, source |-> "file", trigger |-> "ok"],
    [id |-> "e", platforms |-> <<>>, source |-> "template", trigger |-> "ok"],
    [id |-> "q", platforms |-> <<"facebook">>, source |-> "file",
     trigger |-> "invalid"] }
NoConfig == [id |-> "none", platforms |-> <<>>, source |-> "inline", trigger |-> "ok"]

\* the sequences over S of length n at most
SeqUpTo(S, n) == UNION {[1..k -> S] : k \in 0..n}

\* content/schedule.json as JSON.parse returns it
Documents ==
  {[posts |-> d[1], recurring |-> d[2]] :
     d \in {x \in SeqUpTo(PostConfigs, MaxJobs) \X SeqUpTo(RecurringConfigs, MaxJobs) :
              Len(x[1]) + Len(x[2]) <= MaxJobs}}
NoDocument == [posts |-> <<>>, recurring |-> <<>>]

VARIABLES
  initPc,        \* position of initialize(): "constructed", "scheduling",
                 \* "running", "failed"
  scheduleConfig,\* this.scheduleConfig: the descriptors that the loops of
                 \* startScheduler have not reached yet
  server,        \* this.server is set (the HTTP listener is up)
  serverClosed,  \* this.server.close() has been called
  healthStatus,  \* [status, metaClient, uptime, lastCheck]: healthStatus.status,
                 \* .services.metaClient, .uptime, .lastCheck
  isShuttingDown,
  tasks,         \* every task made by cron.schedule(), in creation order
  cronJobs,      \* this.cronJobs: Map in insertion order, entries [jobId, job]
  activeJobs,    \* keys of this.activeJobs
  execs,         \* bag of the invocations of executePost in flight
  sdPc,          \* position of shutdown(): "idle", "draining", "exited"
  elapsed,       \* Date.now() - startTime of the drain loop
  exitCode,      \* argument of process.exit, -1 while the process lives
  abandoned,     \* history: keys dropped by activeJobs.clear() at line 559
  last,          \* history: what the step just taken did
  conv,          \* the trigger converter applied to one scheduledTime: its
                 \* input, the Date, the expression, the trigger made of it
  rateLimits,    \* metaClient.rateLimits: per platform [requests, resetTime]
  now            \* Date.now() as the request counters see it, from 0 at the
                 \* construction of the MetaClient

vars == <<initPc, scheduleConfig, server, serverClosed, healthStatus, isShuttingDown, tasks,
          cronJobs, activeJobs, execs, sdPc, elapsed, exitCode, abandoned, last,
          conv, rateLimits, now>>

\* the state of the program, without the history variables
progVars == <<initPc, scheduleConfig, server, serverClosed, healthStatus, isShuttingDown, tasks,
              cronJobs, activeJobs, execs, sdPc, elapsed, exitCode>>

\* ----------------------------------------------------------------- helpers
Range(s) == {s[i] : i \in 1..Len(s)}

JobId(prefix, id, stamp) == [prefix |-> prefix, id |-> id, stamp |-> stamp]

NoExec == [jobId |-> JobId("none", "none", 0), task |-> 0, config |-> NoConfig,
           pc |-> "none", idx |-> 0, results |-> [p \in {} |-> TRUE],
           fault |-> "none"]

\* values of the history variable last
Quiet == [ev |-> "none", exec |-> NoExec]
Refused == [ev |-> "refused", exec |-> NoExec]
Repeated == [ev |-> "repeated", exec |-> NoExec]
Returned(e) == [ev |-> "returned", exec |-> e]
RateLimited == [ev |-> "rate_limited", exec |-> NoExec]
Skipped(jobId) == [ev |-> "skipped", exec |-> [NoExec EXCEPT !.jobId = jobId]]

\* this.cronJobs.has(jobId)
Has(jobId) == \E i \in 1..Len(cronJobs) : cronJobs[i].jobId = jobId

IndexOf(jobId) == CHOOSE i \in 1..Len(cronJobs) : cronJobs[i].jobId = jobId

\* this.cronJobs.set(jobId, {job, config, type}): a Map keeps the position
\* of a key that is already present
MapSet(jobId, job) ==
  IF Has(jobId)
  THEN [cronJobs EXCEPT ![IndexOf(jobId)] = [jobId |-> jobId, job |-> job]]
  ELSE Append(cronJobs, [jobId |-> jobId, job |-> job])

\* this.cronJobs.delete(jobId)
MapDelete(jobId) ==
  LET i == IndexOf(jobId)
  IN  SubSeq(cronJobs, 1, i - 1) \o SubSeq(cronJobs, i + 1, Len(cronJobs))

\* the process has not called process.exit
Alive == exitCode = -1

InFlight == BagToSet(execs)

\* no conversion is followed
NoConv == [pc |-> "none"]

\* lastCheck: null
NoCheck == -1

\* lines 24-29: the healthStatus the constructor makes
NewHealthStatus ==
  [status |-> "starting", metaClient |-> "none", uptime |-> 0, lastCheck |-> NoCheck]

\* the state after the constructor, with hs as the health record
ConstructedWith(hs) ==
  /\ initPc = "constructed"
  /\ scheduleConfig = NoDocument
  /\ server = FALSE
  /\ serverClosed = FALSE
  /\ healthStatus = hs
  /\ isShuttingDown = FALSE
  /\ tasks = <<>>
  /\ cronJobs = <<>>
  /\ activeJobs = {}
  /\ execs = EmptyBag
  /\ sdPc = "idle"
  /\ elapsed = 0
  /\ exitCode = -1
  /\ abandoned = {}
  /\ last = Quiet
  /\ rateLimits = [p \in {"facebook", "instagram"} |->
                     [requests |-> 0, resetTime |-> rateLimitWindow]]
  /\ now = 0

\* the state after the constructor
Constructed == ConstructedWith(NewHealthStatus)

Init == Constructed /\ conv = NoConv

\* ------------------------------------------------------------- health
\* a sample that leaves the status as it is
updateHealthStatus_Idle(hs) == hs

\* a monitor that downgrades whatever the status is
Downgrades_AnyStatus(hs) == hs.metaClient # "healthy"

\* lines 461-467: no critical service is healthy and the status is 'running'
Downgrades(hs) == hs.metaClient # "healthy" /\ hs.status = "running"

\* updateHealthStatus(): uptime and lastCheck are refreshed (lines 458-459)
\* and the status is downgraded only from 'running'
updateHealthStatus(hs) ==
  LET sampled == [hs EXCEPT !.uptime = now \div 1000, !.lastCheck = now]
  IN  IF Downgrades(hs)
      THEN [sampled EXCEPT !.status = "degraded"]
      ELSE sampled

\* ------------------------------------------------------------- startup
\* validateSchedulePost (validators.js lines 88-145; the checks that
\* fileReader.validateScheduleConfig makes first are among them): content or
\* file, a scheduledTime that moment can parse, a non-empty platform list
\* drawn from facebook and instagram
validateSchedulePost(post) ==
  /\ post.source # "none"
  /\ post.trigger \in {"ok", "lenient"}
  /\ post.platforms # <<>>
  /\ Range(post.platforms) \subseteq {"facebook", "instagram"}

\* a validation that lets every document through
validateScheduleConfig_Accepting(config) == TRUE

\* validators.validateScheduleConfig(config).isValid: the posts are
\* validated one by one; config.recurring is not looked at
validateScheduleConfig(config) ==
  \A i \in 1..Len(config.posts) : validateSchedulePost(config.posts[i])

\* initialize() up to the call of startScheduler(): the services are probed,
\* the schedule document is loaded and validated, health monitoring and the
\* HTTP server are started.  When the validation fails loadScheduleConfig
\* throws: the catch block of lines 64-68 sets the status and rethrows, and
\* the catch of lines 577-580 ends the process.
initialize(documents) ==
  /\ Alive
  /\ initPc = "constructed"
  /\ \E mc \in {"healthy", "error"}, doc \in documents :
       LET hs == [healthStatus EXCEPT !.metaClient = mc]
       IN  /\ scheduleConfig' = doc
           /\ IF validateScheduleConfig(doc)
              THEN /\ healthStatus' = updateHealthStatus(hs)
                   /\ server' = TRUE
                   /\ initPc' = "scheduling"
                   /\ UNCHANGED exitCode
              ELSE /\ healthStatus' = [hs EXCEPT !.status = "error"]
                   /\ initPc' = "failed"
                   /\ exitCode' = 1
                   /\ UNCHANGED server
  /\ last' = Quiet
  /\ UNCHANGED <<conv, rateLimits, now, serverClosed, isShuttingDown, tasks, cronJobs, activeJobs,
                 execs, sdPc, elapsed, abandoned>>

Initialize == initialize(Documents)

\* cron.schedule(expr, callback, {scheduled: false}) followed by
\* cronJobs.set(jobId, ...) and cronJob.start()
Arm(jobId, type, config) ==
  /\ tasks' = Append(tasks, [jobId |-> jobId, type |-> type, config |-> config,
                             armed |-> TRUE])
  /\ cronJobs' = MapSet(jobId, Len(tasks) + 1)

\* cron.schedule(expression, ...) throws when the expression is no cron
\* expression: the cronPattern of the template, or the 'NaN NaN NaN NaN *'
\* that dateToCron makes of an Invalid Date (lines 254-255)
cronScheduleThrows(config) == config.trigger # "ok"

\* schedulePost and scheduleRecurringPost without their try/catch: the
\* exception reaches the catch block of initialize()
ArmingFailed_Rethrown(jobId) ==
  /\ last' = Skipped(jobId)
  /\ healthStatus' = [healthStatus EXCEPT !.status = "error"]
  /\ initPc' = "failed"
  /\ exitCode' = 1
  /\ UNCHANGED <<tasks, cronJobs>>

\* lines 280-285 and 313-318: the catch block logs the failure and the
\* function returns
ArmingFailed(jobId) ==
  /\ last' = Skipped(jobId)
  /\ UNCHANGED <<tasks, cronJobs, healthStatus, initPc, exitCode>>

\* startScheduler() runs its two loops without yielding to the event loop:
\* no signal and no trigger is handled while initPc = "scheduling".
\* One iteration of the loop of lines 231-233:
schedulePost ==
  /\ Alive
  /\ initPc = "scheduling"
  /\ scheduleConfig.posts # <<>>
  /\ LET postConfig == Head(scheduleConfig.posts)
         jobId == JobId("post", postConfig.id, 0)
     IN  IF cronScheduleThrows(postConfig)
         THEN ArmingFailed(jobId)
         ELSE /\ Arm(jobId, "scheduled_post", postConfig)
              /\ last' = Quiet
              /\ UNCHANGED <<healthStatus, initPc, exitCode>>
  /\ scheduleConfig' = [scheduleConfig EXCEPT !.posts = Tail(@)]
  /\ UNCHANGED <<conv, rateLimits, now, server, serverClosed, isShuttingDown, activeJobs, execs,
                 sdPc, elapsed, abandoned>>

\* one iteration of the loop of lines 238-240
scheduleRecurringPost ==
  /\ Alive
  /\ initPc = "scheduling"
  /\ scheduleConfig.posts = <<>>
  /\ scheduleConfig.recurring # <<>>
  /\ LET recurringConfig == Head(scheduleConfig.recurring)
         jobId == JobId("recurring", recurringConfig.id, 0)
     IN  IF cronScheduleThrows(recurringConfig)
         THEN ArmingFailed(jobId)
         ELSE /\ Arm(jobId, "recurring_post", recurringConfig)
              /\ last' = Quiet
              /\ UNCHANGED <<healthStatus, initPc, exitCode>>
  /\ scheduleConfig' = [scheduleConfig EXCEPT !.recurring = Tail(@)]
  /\ UNCHANGED <<conv, rateLimits, now, server, serverClosed, isShuttingDown, activeJobs, execs,
                 sdPc, elapsed, abandoned>>

\* startMaintenanceJobs(), the end of startScheduler(), and the assignment
\* of 'running' that follows it in initialize()
startMaintenanceJobs ==
  /\ Alive
  /\ initPc = "scheduling"
  /\ scheduleConfig = NoDocument
  /\ LET hc == [jobId |-> JobId("health_check", "none", 0), type |-> "maintenance",
                config |-> NoConfig, armed |-> TRUE]
         lc == [jobId |-> JobId("log_cleanup", "none", 0), type |-> "maintenance",
                config |-> NoConfig, armed |-> TRUE]
     IN  /\ tasks' = tasks \o <<hc, lc>>
         /\ cronJobs' = cronJobs \o <<[jobId |-> hc.jobId, job |-> Len(tasks) + 1],
                                      [jobId |-> lc.jobId, job |-> Len(tasks) + 2]>>
  /\ healthStatus' = [healthStatus EXCEPT !.status = "running"]
  /\ initPc' = "running"
  /\ last' = Quiet
  /\ UNCHANGED <<conv, rateLimits, now, scheduleConfig, server, serverClosed, isShuttingDown, activeJobs,
                 execs, sdPc, elapsed, exitCode, abandoned>>

\* ------------------------------------------------------------- executor
\* executePost without the check of the shutdown flag
ShortCircuit_Never == FALSE

\* line 322: if (this.isShuttingDown) return;
ShortCircuit == isShuttingDown

\* executePost without its finally block
Release_Skipped(active, jobId) == active

\* line 387, the finally block: this.activeJobs.delete(jobId)
Release(active, jobId) == active \ {jobId}

\* executePost holding an invocation back when maxConcurrentJobs are active
QueueFull_AtCap(active) == Cardinality(active) >= maxConcurrentJobs

\* lines 322-325: nothing between the shutdown check and activeJobs.set
\* holds an invocation back; queue.settings.maxConcurrentJobs is declared
\* (scheduler.js line 171) and read nowhere
QueueFull(active) == FALSE

\* executePost(jobId, postConfig) from its call to its first await; h is the
\* task whose callback made the call
executePost(h, jobId, postConfig) ==
  IF ShortCircuit \/ QueueFull(activeJobs)
  THEN /\ last' = Refused
       /\ UNCHANGED <<activeJobs, execs>>
  ELSE /\ activeJobs' = activeJobs \cup {jobId}
       /\ execs' = execs (+) SetToBag({
            [jobId |-> jobId, task |-> h, config |-> postConfig,
             pc |-> IF postConfig.source = "file" THEN "read" ELSE "process",
             idx |-> 1, results |-> NoExec.results, fault |-> "none"]})
       /\ last' = Quiet

\* executeRecurringPost handing the registry's jobId on without a stamp
Stamps_None(h) == {0}

\* Date.now() at a firing of recurring task h, as far as it can be told
\* apart: it is the stamp of an execution in flight that another task
\* started (both fired in the same millisecond), or it is a new value
Stamps(h) ==
  LET used == {e.jobId.stamp : e \in InFlight}
      fresh == CHOOSE t \in 1..(MaxExecs + 1) :
                 t \notin used /\ \A u \in 1..(t - 1) : u \in used
  IN  {fresh} \cup {e.jobId.stamp : e \in {x \in InFlight :
                       x.jobId.prefix = "recurring" /\ x.task # h}}

\* lines 393-402: the postConfig of one firing: a new object with the
\* fields of recurringConfig and the content that processTemplate (lines
\* 407-418) returns, in which the placeholders are replaced
processTemplate(recurringConfig) ==
  IF recurringConfig.source = "template"
  THEN [recurringConfig EXCEPT !.source = "inline"]
  ELSE recurringConfig

\* executeRecurringPost assigning the content of the firing to the template
recurringConfigAfter_Resolved(recurringConfig, postConfig) == postConfig

\* the recurringConfig held by the registry and by the callback when
\* executeRecurringPost has built postConfig: content is a local variable
\* and the spread makes a new object, so nothing is assigned to it
recurringConfigAfter(recurringConfig, postConfig) == recurringConfig

\* a cron task fires and runs its callback
Callback(h) ==
  /\ Alive
  /\ initPc = "running"
  /\ tasks[h].armed
  /\ CASE tasks[h].type = "scheduled_post" ->
            /\ executePost(h, tasks[h].jobId, tasks[h].config)
            /\ UNCHANGED <<healthStatus, tasks>>
       [] tasks[h].type = "recurring_post" ->
            \* executeRecurringPost (lines 391-405): the execution is
            \* registered under `${jobId}_${Date.now()}`
            LET postConfig == processTemplate(tasks[h].config)
            IN  /\ \E t \in Stamps(h) :
                     executePost(h, JobId("recurring", tasks[h].jobId.id, t), postConfig)
                /\ tasks' = [tasks EXCEPT ![h].config =
                                recurringConfigAfter(tasks[h].config, postConfig)]
                /\ UNCHANGED healthStatus
       [] OTHER ->
            /\ healthStatus' = IF tasks[h].jobId.prefix = "health_check"
                               THEN updateHealthStatus(healthStatus)
                               ELSE healthStatus
            /\ last' = Quiet
            /\ UNCHANGED <<activeJobs, execs, tasks>>
  /\ UNCHANGED <<conv, rateLimits, now, initPc, scheduleConfig, server, serverClosed, isShuttingDown,
                 cronJobs, sdPc, elapsed, exitCode, abandoned>>

\* a firing, as long as the bound on the invocations in flight allows one
\* more to begin
Fire(h) ==
  /\ \/ isShuttingDown
     \/ tasks[h].type = "maintenance"
     \/ BagCardinality(execs) < MaxExecs
  /\ Callback(h)

\* a call of updateHealthStatus()
Sample ==
  /\ healthStatus' = updateHealthStatus(healthStatus)
  /\ last' = Quiet
  /\ UNCHANGED <<conv, rateLimits, now, initPc, scheduleConfig, server, serverClosed, isShuttingDown,
                 tasks, cronJobs, activeJobs, execs, sdPc, elapsed, exitCode,
                 abandoned>>

\* the setInterval of setupHealthMonitoring
HealthSample ==
  /\ Alive
  /\ initPc = "running"
  /\ Sample

\* invocation e goes on as f
Continue(e, f) ==
  /\ execs' = (execs (-) SetToBag({e})) (+) SetToBag({f})
  /\ last' = Quiet
  /\ UNCHANGED activeJobs

\* invocation e returns in its final state f: the finally block has run
Return(e, f) ==
  /\ execs' = execs (-) SetToBag({e})
  /\ activeJobs' = Release(activeJobs, e.jobId)
  /\ last' = Returned([f EXCEPT !.pc = "done"])

\* lines 332-335: await fileReader.readTextFile(...); when it throws, the
\* catch block of lines 380-385 and the finally block follow
readTextFile(e) ==
  /\ Alive
  /\ e.pc = "read"
  /\ \E ok \in BOOLEAN :
       IF ok
       THEN Continue(e, [e EXCEPT !.pc = "process"])
       ELSE Return(e, [e EXCEPT !.fault = "read"])
  /\ UNCHANGED <<conv, rateLimits, now, initPc, scheduleConfig, server, serverClosed, healthStatus,
                 isShuttingDown, tasks, cronJobs, sdPc, elapsed, exitCode,
                 abandoned>>

\* line 375: the condition under which a one-time job is removed
IsOneTime(jobId) ==
  Has(jobId) /\ tasks[cronJobs[IndexOf(jobId)].job].type = "scheduled_post"

\* lines 365-388, which run without an await once the platform loop is
\* over: the outcome is logged, a one-time job is stopped and deleted, and
\* invocation e returns in its final state f
Finish(e, f) ==
  IF IsOneTime(e.jobId)
  THEN \E stopThrows \in BOOLEAN :
         IF stopThrows
         THEN /\ Return(e, [f EXCEPT !.fault = "stop"])
              /\ UNCHANGED <<tasks, cronJobs>>
         ELSE /\ Return(e, f)
              /\ tasks' = [tasks EXCEPT ![cronJobs[IndexOf(e.jobId)].job].armed = FALSE]
              /\ cronJobs' = MapDelete(e.jobId)
  ELSE /\ Return(e, f)
       /\ UNCHANGED <<tasks, cronJobs>>

\* lines 338-342: await contentProcessor.processContent(...), which runs
\* processPlatformContent for the platforms in order; k = 0: every one
\* returns; k > 0: the one of the k-th platform throws, which rejects the
\* whole call (content-processor.js lines 41-61).  With an empty platform
\* list the loop of line 346 has nothing to do and the invocation finishes.
processContent(e) ==
  /\ Alive
  /\ e.pc = "process"
  /\ \E k \in 0..Len(e.config.platforms) :
       IF k > 0
       THEN /\ Return(e, [e EXCEPT !.fault = "process", !.idx = k])
            /\ UNCHANGED <<tasks, cronJobs>>
       ELSE IF e.config.platforms = <<>>
       THEN Finish(e, [e EXCEPT !.pc = "publish", !.idx = 1])
       ELSE /\ Continue(e, [e EXCEPT !.pc = "publish", !.idx = 1])
            /\ UNCHANGED <<tasks, cronJobs>>
  /\ UNCHANGED <<conv, rateLimits, now, initPc, scheduleConfig, server, serverClosed, healthStatus,
                 isShuttingDown, sdPc, elapsed, exitCode, abandoned>>

\* a platform loop that is left after its first iteration
LoopDone_AfterFirst(e) == TRUE

\* line 346: the for-of loop over postConfig.platforms has no platform left
LoopDone(e) == e.idx >= Len(e.config.platforms)

\* lines 346-363: one iteration of the platform loop; after the last one
\* the rest of executePost (lines 365-388) runs without an await
postToPlatform(e) ==
  /\ Alive
  /\ e.pc = "publish"
  /\ \E success \in BOOLEAN :
       LET f == [e EXCEPT !.results = (e.config.platforms[e.idx] :> success) @@ e.results]
       IN IF ~LoopDone(e)
          THEN /\ Continue(e, [f EXCEPT !.idx = @ + 1])
               /\ UNCHANGED <<tasks, cronJobs>>
          ELSE Finish(e, f)
  /\ UNCHANGED <<conv, rateLimits, now, initPc, scheduleConfig, server, serverClosed, healthStatus,
                 isShuttingDown, sdPc, elapsed, exitCode, abandoned>>

\* ------------------------------------------------------------- shutdown
\* shutdown without the check of the shutdown flag
AlreadyShuttingDown_Never == FALSE

\* line 527: if (this.isShuttingDown) return;
AlreadyShuttingDown == isShuttingDown

\* shutdown that leaves the HTTP server open at this point
closeServer_Skipped(srv) == FALSE

\* lines 536-539: the HTTP server is closed when it had been started
closeServer(srv) == srv

\* a drain loop that waits for the active set alone
DrainContinues_NoTimeout(active, el) == active # {}

\* line 552: the condition of the drain loop
DrainContinues(active, el) == active # {} /\ el < shutdownTimeout

\* shutdown without this.cronJobs.clear()
Cleared_Kept(registry) == registry

\* line 546: this.cronJobs.clear()
Cleared(registry) == <<>>

\* job.stop() on the tasks of the first n registry entries
StopEntries(n) ==
  [h \in 1..Len(tasks) |->
     IF \E j \in 1..n : cronJobs[j].job = h
     THEN [tasks[h] EXCEPT !.armed = FALSE]
     ELSE tasks[h]]

\* shutdown() from its call to its first await or to process.exit
\* k = 0: every job.stop() returns; k > 0: the stop of the k-th entry throws
shutdown ==
  /\ Alive
  /\ initPc # "scheduling"
  /\ isShuttingDown \/ BagCardinality(execs) <= MaxDrained
  /\ IF AlreadyShuttingDown
     THEN /\ last' = Repeated
          /\ UNCHANGED <<isShuttingDown, healthStatus, serverClosed, tasks, cronJobs,
                         sdPc, elapsed, exitCode>>
     ELSE /\ last' = Quiet
          /\ isShuttingDown' = TRUE
          /\ healthStatus' = [healthStatus EXCEPT !.status = "shutting_down"]
          /\ serverClosed' = closeServer(server)
          /\ \E k \in 0..Len(cronJobs) :
               IF k > 0
               THEN /\ tasks' = StopEntries(k - 1)
                    /\ sdPc' = "exited"
                    /\ exitCode' = 1
                    /\ UNCHANGED <<cronJobs, elapsed>>
               ELSE /\ tasks' = StopEntries(Len(cronJobs))
                    /\ cronJobs' = Cleared(cronJobs)
                    /\ elapsed' = 0
                    /\ IF DrainContinues(activeJobs, 0)
                       THEN /\ sdPc' = "draining"
                            /\ UNCHANGED exitCode
                       ELSE /\ sdPc' = "exited"
                            /\ exitCode' = 0
  /\ UNCHANGED <<conv, rateLimits, now, initPc, scheduleConfig, server, activeJobs, execs, abandoned>>

\* the timer of line 554 expires and the drain loop re-evaluates its
\* condition; lines 557-563 follow when the loop ends
drainPoll ==
  /\ sdPc = "draining"
  /\ elapsed' = elapsed + pollInterval
  /\ IF DrainContinues(activeJobs, elapsed')
     THEN UNCHANGED <<sdPc, exitCode, activeJobs, abandoned>>
     ELSE /\ abandoned' = activeJobs
          /\ activeJobs' = {}
          /\ sdPc' = "exited"
          /\ exitCode' = 0
  /\ last' = Quiet
  /\ UNCHANGED <<conv, rateLimits, now, initPc, scheduleConfig, server, serverClosed, healthStatus,
                 isShuttingDown, tasks, cronJobs, execs>>

Next ==
  \/ Initialize
  \/ schedulePost
  \/ scheduleRecurringPost
  \/ startMaintenanceJobs
  \/ \E h \in 1..Len(tasks) : Fire(h)
  \/ HealthSample
  \/ \E e \in InFlight : readTextFile(e)
  \/ \E e \in InFlight : processContent(e)
  \/ \E e \in InFlight : postToPlatform(e)
  \/ shutdown
  \/ drainPoll

Spec == Init /\ [][Next]_vars

\* the timers of the event loop expire: a pending drain poll is run
FairSpec == Spec /\ WF_vars(drainPoll)

TypeOK ==
  /\ initPc \in {"constructed", "scheduling", "running", "failed"}
  /\ sdPc \in {"idle", "draining", "exited"}
  /\ BagCardinality(execs) <= MaxExecs
  /\ elapsed \in 0..shutdownTimeout

\* a task whose registry entry was overwritten by cronJobs.set() of a later
\* task with the same jobId: no entry of the registry refers to it any more
IsOrphan(h) == \E g \in (h + 1)..Len(tasks) : tasks[g].jobId = tasks[h].jobId

\* ---------------------------------------------------- trigger converter
\* Instants are minutes counted from 1 January 00:00 UTC of a common year; a
\* zone is a fixed offset from UTC in minutes (daylight saving is left out).
MinutesPerYear == 525600
MonthDays == <<31, 28, 31, 30, 31, 30, 31, 31, 30, 31, 30, 31>>

RECURSIVE DaysBefore(_)
DaysBefore(m) == IF m = 1 THEN 0 ELSE DaysBefore(m - 1) + MonthDays[m - 1]

\* the instant whose calendar fields, read in UTC, are those of stamp
Instant(stamp) ==
  ((DaysBefore(stamp.month) + stamp.day - 1) * 24 + stamp.hour) * 60 + stamp.minute

\* minute, hour, day of month and month of instant t read in a zone whose
\* offset is off: what the getters of Date return for the zone of the
\* process, and what node-cron matches an expression against
Fields(t, off) ==
  LET l == (t + off + MinutesPerYear) % MinutesPerYear
      d == l \div 1440
      m == CHOOSE k \in 1..12 : DaysBefore(k) <= d /\ d < DaysBefore(k) + MonthDays[k]
  IN  [minute |-> l % 60, hour |-> (l \div 60) % 24,
       day |-> d - DaysBefore(m) + 1, month |-> m]

Zones == {"UTC", "America/New_York", "Asia/Tokyo"}
SystemZones == {"UTC", "Europe/Berlin"}
Offset(zone) ==
  CASE zone = "UTC" -> 0
    [] zone = "America/New_York" -> -300
    [] zone = "Europe/Berlin" -> 60
    [] zone = "Asia/Tokyo" -> 540

\* a scheduledTime that new Date() cannot parse
Unparseable == [month |-> 0, day |-> 0, hour |-> 0, minute |-> 0]

ScheduledTimes ==
  { [month |-> 3, day |-> 1, hour |-> 10, minute |-> 0],
    [month |-> 6, day |-> 15, hour |-> 12, minute |-> 59],
    [month |-> 12, day |-> 31, hour |-> 23, minute |-> 30],
    [month |-> 1, day |-> 1, hour |-> 0, minute |-> 0] }

\* the inputs of a conversion: the scheduledTime of the post, whether it
\* carries a zone designator ('...Z') or is a bare wall-clock time, the
\* timezone of the post and the zone of the process
ConvInputs ==
  [stamp : ScheduledTimes \cup {Unparseable}, qualified : BOOLEAN,
   zone : Zones \cup {"Mars/Olympus"}, system : SystemZones]

NaN == -1
InvalidDate == -MinutesPerYear

\* line 254: new Date(postConfig.scheduledTime); a time without a zone
\* designator is read as a local time of the process
newDate(in) ==
  IF in.stamp = Unparseable THEN InvalidDate
  ELSE IF in.qualified THEN Instant(in.stamp)
  ELSE Instant(in.stamp) - Offset(in.system)

\* the instant the post is meant for: the validators read a time without a
\* zone designator in the timezone of the post (validators.js line 315)
Intended(in) ==
  IF in.qualified THEN Instant(in.stamp) ELSE Instant(in.stamp) - Offset(in.zone)

\* lines 495-503: dateToCron(date, timezone) reads the fields with the
\* getters of Date, in the zone of the process; timezone is not used; of an
\* Invalid Date every getter returns NaN
dateToCron(date, timezone, system) ==
  IF date = InvalidDate
  THEN [minute |-> NaN, hour |-> NaN, day |-> NaN, month |-> NaN]
  ELSE Fields(date, Offset(system))

\* node-cron: the first instant after `after` at which expression, read in
\* zone, matches
nextFire(expression, zone, after) ==
  LET S == {t \in (after + 1)..(after + Horizon * 60) :
              Fields(t, Offset(zone)) = expression}
  IN  IF S = {} THEN [found |-> FALSE, at |-> 0]
      ELSE [found |-> TRUE, at |-> CHOOSE t \in S : \A u \in S : t <= u]

ConvStart(in) ==
  [pc |-> "input", in |-> in, date |-> InvalidDate,
   expression |-> [minute |-> NaN, hour |-> NaN, day |-> NaN, month |-> NaN],
   thrown |-> "none", armed |-> FALSE, next |-> [found |-> FALSE, at |-> 0]]

\* lines 254-255 of schedulePost
Convert ==
  /\ conv.pc = "input"
  /\ LET date == newDate(conv.in)
     IN  conv' = [conv EXCEPT !.pc = "converted", !.date = date,
                    !.expression = dateToCron(date, conv.in.zone, conv.in.system)]
  /\ UNCHANGED <<progVars, abandoned, last, rateLimits, now>>

\* lines 265-278 of schedulePost: cron.schedule(cronExpression, ...,
\* {timezone}) throws for 'NaN NaN NaN NaN *'; whether it throws for a
\* timezone it does not know depends on the version of node-cron
Schedule ==
  /\ conv.pc = "converted"
  /\ \E accepted \in BOOLEAN :
       conv' = IF conv.expression.minute = NaN \/ (conv.in.zone \notin Zones /\ ~accepted)
               THEN [conv EXCEPT !.pc = "scheduled", !.thrown = "cron.schedule"]
               ELSE IF conv.in.zone \notin Zones
               THEN [conv EXCEPT !.pc = "scheduled", !.armed = TRUE]
               ELSE [conv EXCEPT !.pc = "scheduled", !.armed = TRUE,
                       !.next = nextFire(conv.expression, conv.in.zone,
                                         Intended(conv.in) - 1)]
  /\ UNCHANGED <<progVars, abandoned, last, rateLimits, now>>

ConvInit == Constructed /\ conv \in {ConvStart(in) : in \in ConvInputs}

ConvNext == Convert \/ Schedule

\* the conversion and arming of one post, for every input
ConvSpec == ConvInit /\ [][ConvNext]_vars

\* ------------------------------------------------------------- burst
\* A document of MaxBurst posts with different ids, all due at the same
\* minute: the triggers fire one after the other while every execution that
\* has begun is waiting at its first await.
BurstIds == <<"p1", "p2", "p3", "p4", "p5", "p6", "p7", "p8">>

BurstDocument ==
  [posts |-> [i \in 1..MaxBurst |->
                [id |-> BurstIds[i], platforms |-> <<"facebook">>,
                 source |-> "inline", trigger |-> "ok"]],
   recurring |-> <<>>]

BurstInitialize == initialize({BurstDocument})

\* the trigger of a post that is due fires
BurstFire(h) ==
  /\ tasks[h].type = "scheduled_post"
  /\ tasks[h].jobId \notin activeJobs
  /\ Callback(h)

BurstNext ==
  \/ BurstInitialize
  \/ schedulePost
  \/ startMaintenanceJobs
  \/ \E h \in 1..Len(tasks) : BurstFire(h)
  \/ HealthSample

BurstSpec == Init /\ [][BurstNext]_vars

\* ------------------------------------------------------ request counters
\* The rate limiter of the MetaClient (src/src/services/meta-client.js),
\* called before every request to a platform; the clock moves in steps of
\* half a window.
Tick == rateLimitWindow \div 2

\* a limiter that lets the request through that finds the counter at the
\* maximum
Exceeded_Late(limit) == limit.requests > maxRequestsPerHour

\* line 43: if (limit.requests >= this.maxRequestsPerHour)
Exceeded(limit) == limit.requests >= maxRequestsPerHour

\* lines 38-41: the counter of a window that is over starts again
Window(limit) ==
  IF now > limit.resetTime
  THEN [requests |-> 0, resetTime |-> now + rateLimitWindow]
  ELSE limit

\* checkRateLimit(platform), which has no await inside
checkRateLimit(platform) ==
  /\ LET limit == Window(rateLimits[platform])
     IN  IF Exceeded(limit)
         THEN /\ rateLimits' = [rateLimits EXCEPT ![platform] = limit]
              /\ last' = RateLimited
         ELSE /\ rateLimits' = [rateLimits EXCEPT ![platform] =
                                  [limit EXCEPT !.requests = @ + 1]]
              /\ last' = Quiet
  /\ UNCHANGED <<progVars, abandoned, conv, now>>

\* time passes
ClockTick ==
  /\ now < MaxTicks * Tick
  /\ now' = now + Tick
  /\ last' = Quiet
  /\ UNCHANGED <<progVars, abandoned, conv, rateLimits>>

RateNext ==
  \/ \E platform \in DOMAIN rateLimits : checkRateLimit(platform)
  \/ ClockTick

\* the request counters under every sequence of requests and clock steps
RateSpec == Init /\ [][RateNext]_vars

\* ------------------------------------------------------ health monitor
\* updateHealthStatus applied to every health record: each overall status
\* with each state of the platform client, at every time of the clock.
Statuses == {"starting", "running", "degraded", "error", "shutting_down"}

\* healthStatus.services.metaClient: "none" before initializeServices
Services == {"none", "healthy", "error"}

HealthInit ==
  /\ conv = NoConv
  /\ \E s \in Statuses, m \in Services :
       ConstructedWith([NewHealthStatus EXCEPT !.status = s, !.metaClient = m])

HealthNext == Sample \/ ClockTick

HealthSpec == HealthInit /\ [][HealthNext]_vars

\* ------------------------------------------------------------- properties
\* C1: once shutdown has set isShuttingDown, no invocation of executePost
\* begins an execution: no step adds a key to activeJobs or puts a new
\* invocation in flight, so no content processing and no publish call is
\* issued by an invocation made after the flag was set.
C1_NoExecutionAfterShutdown ==
  [][isShuttingDown =>
       /\ activeJobs' \subseteq activeJobs
       /\ BagCardinality(execs') <= BagCardinality(execs)
       /\ \A f \in BagToSet(execs') :
            \E e \in InFlight : e.jobId = f.jobId /\ e.task = f.task]_vars

\* a trigger fired after the flag was set and executePost returned at once
C1_Witness == isShuttingDown /\ last = Refused

\* C2: an invocation of executePost that passed the shutdown check has
\* removed its jobId from activeJobs when it returns, on every exit path
\* (normal completion, a throw of the file read, of the content processing
\* or of the removal of the one-time job).
C2_ReleasedOnReturn ==
  last.ev = "returned" => last.exec.jobId \notin activeJobs

\* an invocation returned through the catch block
C2_Witness ==
  /\ last.ev = "returned"
  /\ last.exec.fault \in {"read", "process"}
  /\ last.exec.jobId \notin activeJobs

\* C3: while shutdown is in progress and the drain timeout has not elapsed,
\* every execution still in flight is in the active set and the process has
\* not exited.
C3_ActiveUntilFinishedOrTimeout ==
  \A e \in InFlight :
    isShuttingDown /\ elapsed < shutdownTimeout => e.jobId \in activeJobs /\ Alive

\* C4: once shutdown has started the process eventually exits, even when an
\* execution in flight never finishes; the drain goes on only while the
\* timeout has not elapsed, and keys are dropped from the active set only
\* when the timeout has elapsed.
C4_ShutdownTerminates ==
  /\ isShuttingDown ~> (sdPc = "exited")
  /\ [](sdPc = "draining" => elapsed < shutdownTimeout)
  /\ [](abandoned # {} => elapsed >= shutdownTimeout)

\* the process exited at the timeout with an execution still in flight
C4_Witness ==
  /\ sdPc = "exited"
  /\ exitCode = 0
  /\ abandoned # {}
  /\ execs # EmptyBag
  /\ elapsed = shutdownTimeout

\* C5: the shutdown sequence runs at most once: a call of shutdown made
\* when the flag is already set changes nothing in the state of the program.
C5_ShutdownRunsOnce ==
  [][isShuttingDown /\ shutdown => UNCHANGED progVars]_vars

\* shutdown was called again while the first call was draining
C5_Witness == last = Repeated /\ sdPc = "draining"

\* the triggers of the registry were all disarmed: a task still armed is one
\* that no registry entry referred to
RegistryDisarmed == \A h \in 1..Len(tasks) : tasks[h].armed => IsOrphan(h)

\* C6 as stated: the flag is set first, the triggers are disarmed and
\* removed next, the active set is drained after that, and the HTTP server
\* is released only when the drain phase has ended.
C6_ServerReleasedAfterDrain ==
  /\ sdPc # "idle" => isShuttingDown
  /\ sdPc = "draining" => cronJobs = <<>> /\ RegistryDisarmed
  /\ serverClosed => sdPc = "exited"

\* C6, amended: the flag is set first and the HTTP server is closed right
\* after it, before any trigger is disarmed; the drain begins only when
\* every trigger of the registry is disarmed and the registry is empty; the
\* process exits with status 0 only after the drain phase, with an empty
\* registry and an empty active set.
C6_ShutdownOrder ==
  /\ sdPc # "idle" \/ serverClosed => isShuttingDown
  /\ isShuttingDown /\ server => serverClosed
  /\ sdPc = "draining" => serverClosed /\ cronJobs = <<>> /\ RegistryDisarmed
  /\ exitCode = 0 =>
       /\ cronJobs = <<>> /\ RegistryDisarmed
       /\ activeJobs = {}
       /\ abandoned # {} => elapsed >= shutdownTimeout

\* the drain is going on with the HTTP server already closed
C6_Witness ==
  /\ sdPc = "draining"
  /\ serverClosed
  /\ activeJobs # {}
  /\ elapsed > 0

\* C7: an error raised by a step of shutdown does not block the rest: when
\* the process exits, every trigger of the registry has been disarmed and
\* removed, and the drain was performed (the active set is empty, or the
\* timeout has elapsed).
C7_ErrorsDoNotBlockShutdown ==
  sdPc = "exited" =>
    /\ cronJobs = <<>> /\ RegistryDisarmed
    /\ activeJobs = {} \/ elapsed >= shutdownTimeout

\* C8: in one pass a failure for one platform, in its content processing or
\* in its publish call, does not prevent the publish attempt of another
\* platform: when an invocation that got its content returns, every platform
\* other than one whose processing threw has an outcome of a publish attempt.
C8_PlatformsIndependent ==
  last.ev = "returned" /\ last.exec.fault # "read" =>
    \A i \in 1..Len(last.exec.config.platforms) :
      \/ last.exec.fault = "process" /\ i = last.exec.idx
      \/ last.exec.config.platforms[i] \in DOMAIN last.exec.results

\* C9: when the execution of a job with a non-empty platform list finishes,
\* the key set of its outcome map is the platform list.
C9_OutcomeKeysArePlatforms ==
  last.ev = "returned" /\ last.exec.config.platforms # <<>> =>
    DOMAIN last.exec.results = Range(last.exec.config.platforms)

\* C10: after the execution of a one-off job has returned, whether it
\* completed or failed, the job is absent from cronJobs and the trigger that
\* fired it is stopped.
C10_OneOffRemoved ==
  last.ev = "returned" /\ tasks[last.exec.task].type = "scheduled_post" =>
    /\ ~Has(last.exec.jobId)
    /\ ~tasks[last.exec.task].armed

\* C11: a one-off job is executed at most once: once an execution of it has
\* returned, no later match of its trigger expression starts a second
\* execution (the step that follows the return is never a firing of the
\* same trigger that begins an execution).
C11_OneOffExecutedOnce ==
  [][last.ev = "returned" /\ tasks[last.exec.task].type = "scheduled_post" =>
       ~(/\ Fire(last.exec.task)
         /\ BagCardinality(execs') > BagCardinality(execs))]_vars

\* the identifier of the job an invocation belongs to: the jobId of the
\* trigger that started it (the key of a recurring execution carries a
\* time stamp in addition)
JobOf(e) == tasks[e.task].jobId

\* C12: no two executions of the same job identifier are in flight at the
\* same time: neither two started by the trigger of a recurring job, nor two
\* started by different triggers armed under one identifier (a second
\* firing of the one trigger of a one-off job is the matter of C11).
C12_NoConcurrentSameJob ==
  \A e \in InFlight :
    /\ tasks[e.task].type = "recurring_post" => CopiesIn(e, execs) = 1
    /\ \A f \in InFlight :
         /\ JobOf(f) = JobOf(e)
         /\ f.task # e.task \/ tasks[e.task].type = "recurring_post"
         => f = e

\* C13: arming is idempotent per job identifier: after any sequence of
\* schedulePost and scheduleRecurringPost calls the registry holds one entry
\* per identifier and every armed trigger is the one its registry entry
\* refers to (no orphaned trigger is left armed).
C13_ArmingIdempotent ==
  /\ \A i, j \in 1..Len(cronJobs) : cronJobs[i].jobId = cronJobs[j].jobId => i = j
  /\ \A h \in 1..Len(tasks) :
       tasks[h].armed => \E i \in 1..Len(cronJobs) : cronJobs[i].job = h

\* a success flag computed from the outcome map alone
Succeeded_ByResults(e) == \A p \in DOMAIN e.results : e.results[p]

\* lines 365 and 381: the success flag handed to logger.jobExecuted: no
\* exception reached the catch block and every platform succeeded
Succeeded(e) ==
  e.fault = "none" /\ \A p \in DOMAIN e.results : e.results[p]

\* the publish call of some platform failed in the pass (lines 359-362; the
\* catch keeps error.message alone, the class of the error is not looked at)
PlatformFailed(e) == \E p \in DOMAIN e.results : ~e.results[p]

\* something can still start an execution of the job: a trigger armed under
\* its identifier (the program has no other timer that calls executePost)
CanRun(jobId) ==
  \E h \in 1..Len(tasks) : tasks[h].jobId = jobId /\ tasks[h].armed

\* C14: every state change of a job is one of the enumerated transitions; in
\* particular a one-off job never leaves completed or failed: once a pass of
\* it has returned, it is not running in the next state.
C14_LifecycleTransitions ==
  [][last.ev = "returned" /\ tasks[last.exec.task].type = "scheduled_post" =>
       \A e \in BagToSet(execs') : JobOf(e) # JobOf(last.exec)]_vars

\* C15: a job whose every attempt fails with a retryable class (for
\* network_error the maximum is 4 attempts) is attempted again after a
\* failed attempt: when the first pass of a one-off job returns with every
\* platform failed, a further attempt of that job can still be started.
C15_RetriedUntilExhausted ==
  /\ last.ev = "returned"
  /\ tasks[last.exec.task].type = "scheduled_post"
  /\ last.exec.fault = "none"
  /\ \A p \in DOMAIN last.exec.results : ~last.exec.results[p]
  => CanRun(JobOf(last.exec))

\* C16: when one platform fails with a class that has attempts remaining and
\* another succeeds, the job ends the pass in state retrying (a further
\* attempt is scheduled), and the outcome map marks only the succeeding
\* platform as succeeded.
C16_PartialFailureRetries ==
  /\ last.ev = "returned"
  /\ tasks[last.exec.task].type = "scheduled_post"
  /\ last.exec.fault = "none"
  /\ PlatformFailed(last.exec)
  /\ \E p \in DOMAIN last.exec.results : last.exec.results[p]
  => /\ CanRun(JobOf(last.exec))
     /\ DOMAIN last.exec.results = Range(last.exec.config.platforms)

\* C17: a job whose failure is a content error is failed after exactly one
\* attempt: when the pass of a one-off job returns after the content
\* processing threw or a publish call failed, no second attempt of the job
\* can be started.
C17_ContentErrorNotRetried ==
  /\ last.ev = "returned"
  /\ tasks[last.exec.task].type = "scheduled_post"
  /\ last.exec.fault = "process" \/ PlatformFailed(last.exec)
  => ~CanRun(JobOf(last.exec))

\* a step of a recurring job: its trigger fires, or an execution started by
\* its trigger goes on or returns
RecurringStep ==
  \/ \E h \in 1..Len(tasks) : tasks[h].type = "recurring_post" /\ Fire(h)
  \/ \E e \in InFlight :
       /\ tasks[e.task].type = "recurring_post"
       /\ readTextFile(e) \/ processContent(e) \/ postToPlatform(e)

\* C19: the registry entry and the armed trigger of a recurring job persist
\* across executions: no firing and no step of an execution adds or removes
\* a registry entry or disarms a trigger; an execution runs under a key of
\* its own, which is no registry key, and starts with an empty outcome map;
\* when it has returned (and no shutdown has begun) the job is registered
\* with its trigger armed, ready for the next firing.
C19_RecurringPersists ==
  /\ [][RecurringStep => UNCHANGED <<cronJobs, tasks>>]_vars
  /\ [](\A e \in InFlight :
          tasks[e.task].type = "recurring_post" =>
            /\ ~Has(e.jobId)
            /\ e.pc \in {"read", "process"} => DOMAIN e.results = {})
  /\ [](/\ last.ev = "returned"
        /\ tasks[last.exec.task].type = "recurring_post"
        /\ ~isShuttingDown
        => /\ Has(JobOf(last.exec))
           /\ tasks[last.exec.task].armed)

\* an execution of a recurring job completed and the job is still
\* registered and armed
C19_Witness ==
  /\ last.ev = "returned"
  /\ tasks[last.exec.task].type = "recurring_post"
  /\ Succeeded(last.exec)
  /\ DOMAIN last.exec.results = Range(last.exec.config.platforms)
  /\ ~isShuttingDown
  /\ Has(JobOf(last.exec))
  /\ tasks[last.exec.task].armed

\* a step of an invocation of executePost in flight
ExecStep ==
  \E e \in InFlight : readTextFile(e) \/ processContent(e) \/ postToPlatform(e)

\* C21: within one pass the outcome of the job is settled, and a one-off job
\* is disarmed and removed from the registry, only when every platform
\* attempt of the pass has completed: a step of an invocation that changes
\* the registry or a trigger is the return of an invocation whose outcome
\* map holds every platform of its list, and an invocation that returns has
\* either attempted no platform (its content could not be got) or all.
C21_TransitionAfterAttempts ==
  /\ [][ExecStep /\ <<tasks, cronJobs>>' # <<tasks, cronJobs>> =>
          /\ last'.ev = "returned"
          /\ last'.exec.fault = "none"
          /\ DOMAIN last'.exec.results = Range(last'.exec.config.platforms)
          /\ CopiesIn(last'.exec, execs') = 0]_vars
  /\ [](last.ev = "returned" =>
          IF last.exec.fault \in {"read", "process"}
          THEN DOMAIN last.exec.results = {}
          ELSE DOMAIN last.exec.results = Range(last.exec.config.platforms))

\* a one-off job was disarmed and removed by the pass that attempted both
\* of its platforms
C21_Witness ==
  /\ last.ev = "returned"
  /\ tasks[last.exec.task].type = "scheduled_post"
  /\ last.exec.fault = "none"
  /\ Cardinality(DOMAIN last.exec.results) = 2
  /\ ~isShuttingDown
  /\ ~Has(last.exec.jobId)
  /\ ~tasks[last.exec.task].armed

\* the descriptor that the arming loops of startScheduler reach next
NextDescriptor ==
  IF scheduleConfig.posts # <<>>
  THEN Head(scheduleConfig.posts)
  ELSE Head(scheduleConfig.recurring)

\* C22: a failure while arming one job is caught and the job is skipped:
\* the iteration in which cron.schedule throws adds nothing to the registry,
\* creates no trigger and leaves startup going; every other iteration arms
\* its descriptor (a new trigger, armed, referred to by the registry); and
\* the scheduler is through only when both loops have reached every
\* descriptor of the document.
C22_ArmingFailureSkipsJob ==
  /\ [][schedulePost \/ scheduleRecurringPost =>
          IF cronScheduleThrows(NextDescriptor)
          THEN /\ UNCHANGED <<tasks, cronJobs>>
               /\ initPc' = "scheduling"
               /\ exitCode' = -1
          ELSE /\ Len(tasks') = Len(tasks) + 1
               /\ tasks'[Len(tasks')].config = NextDescriptor
               /\ tasks'[Len(tasks')].armed
               /\ \E i \in 1..Len(cronJobs') : cronJobs'[i].job = Len(tasks')]_vars
  /\ [](last.ev = "skipped" => Alive /\ initPc = "scheduling" /\ ~Has(last.exec.jobId))
  /\ [](initPc = "running" => scheduleConfig = NoDocument)

\* the arming of a recurring template has just failed and another one,
\* which can be armed, is still to come
C22_Witness ==
  /\ last.ev = "skipped"
  /\ last.exec.jobId.prefix = "recurring"
  /\ tasks = <<>>
  /\ scheduleConfig.recurring # <<>>
  /\ ~cronScheduleThrows(Head(scheduleConfig.recurring))

\* C23: when the schedule document fails validation, startup aborts:
\* initialize() fails, the overall status is error, the process ends with
\* status 1, and no job is registered or armed (startScheduler is not
\* reached, nor is the HTTP server started).
C23_InvalidDocumentAbortsStartup ==
  /\ (\E i \in 1..Len(scheduleConfig.posts) :
        ~validateSchedulePost(scheduleConfig.posts[i])) => initPc = "failed"
  /\ initPc = "failed" =>
       /\ healthStatus.status = "error"
       /\ exitCode = 1
       /\ tasks = <<>> /\ cronJobs = <<>>
       /\ ~server

\* startup was aborted for a document whose second post is invalid
C23_Witness ==
  /\ initPc = "failed"
  /\ Len(scheduleConfig.posts) = 2
  /\ validateSchedulePost(scheduleConfig.posts[1])
  /\ ~validateSchedulePost(scheduleConfig.posts[2])
  /\ healthStatus.status = "error"

\* C24: every descriptor the scheduler has armed, post or recurring
\* template, satisfies what validation asks: a non-empty platform list drawn
\* from facebook and instagram, content or a file, and a scheduled time
\* (post) or a trigger pattern (recurring template).
C24_ArmedDescriptorsValidated ==
  \A h \in 1..Len(tasks) :
    tasks[h].type \in {"scheduled_post", "recurring_post"} =>
      /\ tasks[h].config.platforms # <<>>
      /\ Range(tasks[h].config.platforms) \subseteq {"facebook", "instagram"}
      /\ tasks[h].config.source # "none"
      /\ tasks[h].config.trigger # "missing"

\* a health sample is taken: by the interval timer of setupHealthMonitoring
\* or by the health_check maintenance job
SampleStep ==
  \/ HealthSample
  \/ \E h \in 1..Len(tasks) : tasks[h].jobId.prefix = "health_check" /\ Fire(h)

\* C25 as stated: after each health sample the overall status is degraded
\* exactly when the platform client does not report healthy, and running
\* otherwise; it is error only after a failure of initialization.
C25_StatusAfterSample ==
  /\ [][SampleStep =>
          healthStatus'.status = IF healthStatus'.metaClient # "healthy"
                                 THEN "degraded" ELSE "running"]_vars
  /\ [](healthStatus.status = "error" => initPc = "failed")

\* C25, amended: after each health sample taken between the end of
\* initialization and the beginning of shutdown, the overall status is
\* degraded exactly when the platform client does not report healthy, and
\* running otherwise; a sample taken once shutdown has begun leaves the
\* status shutting_down; the status is error exactly after a failure of
\* initialization; the health of the platform client is set by
\* initialization and by nothing after it.
C25_StatusWhileRunning ==
  /\ [][SampleStep /\ ~isShuttingDown =>
          healthStatus'.status = IF healthStatus'.metaClient # "healthy"
                                 THEN "degraded" ELSE "running"]_vars
  /\ [][SampleStep /\ isShuttingDown =>
          healthStatus'.status = "shutting_down"]_vars
  /\ [](healthStatus.status = "error" <=> initPc = "failed")
  /\ [][initPc # "constructed" =>
          healthStatus'.metaClient = healthStatus.metaClient]_vars

\* the status was downgraded while the application runs
C25_Witness ==
  /\ healthStatus.status = "degraded"
  /\ healthStatus.metaClient = "error"
  /\ initPc = "running"
  /\ ~isShuttingDown

\* the scheduledTime can be localized: new Date() can parse it and the
\* timezone is one the platform knows
Localizable(in) == in.stamp # Unparseable /\ in.zone \in Zones

\* C26: for every timestamp T and timezone Z, the expression the converter
\* produces, evaluated by the trigger facility in Z, has its next firing
\* after T minus one minute at T, and its minute, hour, day-of-month and
\* month are those of T read in Z.
C26_RoundTrip ==
  conv.pc = "scheduled" /\ Localizable(conv.in) =>
    /\ conv.armed
    /\ conv.expression = Fields(Intended(conv.in), Offset(conv.in.zone))
    /\ conv.next = [found |-> TRUE, at |-> Intended(conv.in)]

\* C27: converting a timestamp that cannot be localized to the timezone
\* fails with InvalidTimeSpec: the converter returns no expression,
\* and no trigger is armed for the descriptor.
C27_InvalidTimeSpec ==
  conv.pc \in {"converted", "scheduled"} /\ ~Localizable(conv.in) =>
    /\ conv.thrown = "InvalidTimeSpec"
    /\ ~conv.armed

\* C28: firing a job never changes its stored config: no step changes the
\* config, identifier or type of a trigger once it is created, so the
\* template held for a recurring job is the same before and after any
\* number of firings; every execution of a recurring job works on a copy
\* resolved from the template as it was stored.
C28_ConfigImmutable ==
  /\ [][\A h \in 1..Len(tasks) :
          /\ h <= Len(tasks')
          /\ tasks'[h].config = tasks[h].config
          /\ tasks'[h].jobId = tasks[h].jobId
          /\ tasks'[h].type = tasks[h].type]_vars
  /\ [](\A e \in InFlight :
          e.config = IF tasks[e.task].type = "recurring_post"
                     THEN processTemplate(tasks[e.task].config)
                     ELSE tasks[e.task].config)

\* a firing of a template with placeholders has returned while a later
\* firing of the same template is in flight, and the template is as stored
C28_Witness ==
  /\ last.ev = "returned"
  /\ tasks[last.exec.task].config.source = "template"
  /\ last.exec.config.source = "inline"
  /\ \E e \in InFlight :
       /\ e.task = last.exec.task
       /\ e.jobId # last.exec.jobId
       /\ e.config.source = "inline"

\* C29: the executor enforces no cap on the number of jobs: every firing of
\* a due job begins its execution at once (its identifier enters the active
\* set and an invocation is in flight), whatever the number of jobs already
\* active, so that k jobs due at the same instant are all in the active set
\* together, also for k above maxConcurrentJobs.
C29_NoJobCountCap ==
  /\ [][\A h \in 1..Len(tasks) :
          BurstFire(h) =>
            /\ activeJobs' = activeJobs \cup {tasks[h].jobId}
            /\ BagCardinality(execs') = BagCardinality(execs) + 1
            /\ last' # Refused]_vars
  /\ [](Cardinality(activeJobs) = BagCardinality(execs))

\* more jobs than maxConcurrentJobs are in the active set together
C29_Witness ==
  /\ Cardinality(activeJobs) = MaxBurst
  /\ BagCardinality(execs) = MaxBurst
  /\ MaxBurst > maxConcurrentJobs
  /\ \A e \in InFlight : e.pc = "process"

\* C30: until the drain timeout clears it, the active set tracks the
\* executions in flight exactly: an identifier is in activeJobs if and only
\* if an execution registered under it has started and not yet returned, and
\* the size of activeJobs is the number of executions in flight, also when
\* two triggers carry the same job identifier.
C30_ActiveSetExact ==
  abandoned = {} =>
    /\ activeJobs = {e.jobId : e \in InFlight}
    /\ Cardinality(activeJobs) = BagCardinality(execs)

\* C31: once shutdown has cleared the registry it stays empty until the
\* process exits: while the drain goes on and at the exit that follows it
\* cronJobs is empty; no step taken with isShuttingDown set arms a trigger,
\* creates one or adds an entry to cronJobs; and an execution that finishes
\* during the drain finds no entry, puts none back and does not fail on the
\* removal of the one-time job.
C31_RegistryStaysEmpty ==
  /\ [](sdPc = "draining" \/ exitCode = 0 => cronJobs = <<>>)
  /\ [][isShuttingDown =>
          /\ Len(tasks') = Len(tasks)
          /\ \A h \in 1..Len(tasks) : tasks'[h].armed => tasks[h].armed
          /\ Range(cronJobs') \subseteq Range(cronJobs)]_vars
  /\ [](sdPc = "draining" /\ last.ev = "returned" =>
          cronJobs = <<>> /\ last.exec.fault # "stop")

\* the execution of a one-off job got through its platform loop and
\* returned while the drain was going on
C31_Witness ==
  /\ sdPc = "draining"
  /\ cronJobs = <<>>
  /\ last.ev = "returned"
  /\ last.exec.fault = "none"
  /\ tasks[last.exec.task].type = "scheduled_post"
  /\ DOMAIN last.exec.results # {}

\* C32: when the content resolution (the file read) or the content
\* processing throws for a job, whichever of its platforms the processing
\* failed for, the pass has made no publish call for any platform of the job
\* when it returns, and the execution is reported as unsuccessful.
C32_ContentFailureSkipsPublish ==
  last.ev = "returned" /\ last.exec.fault \in {"read", "process"} =>
    /\ DOMAIN last.exec.results = {}
    /\ ~Succeeded(last.exec)

\* the processing for the second of two platforms threw after the one for
\* the first had returned
C32_Witness ==
  /\ last.ev = "returned"
  /\ last.exec.fault = "process"
  /\ Len(last.exec.config.platforms) = 2
  /\ last.exec.idx = 2
  /\ DOMAIN last.exec.results = {}
  /\ ~Succeeded(last.exec)

\* C33: for each platform the request counter never exceeds
\* maxRequestsPerHour, and within a window (the reset time not passed) a call
\* of checkRateLimit throws and leaves the counter unchanged when the
\* counter has reached the maximum and adds exactly one to it otherwise; no
\* call changes the counter of the other platform.
C33_RateLimit ==
  /\ [](\A p \in DOMAIN rateLimits : rateLimits[p].requests \in 0..maxRequestsPerHour)
  /\ [][\A p \in DOMAIN rateLimits :
          checkRateLimit(p) =>
            /\ \A q \in DOMAIN rateLimits \ {p} : rateLimits'[q] = rateLimits[q]
            /\ now <= rateLimits[p].resetTime =>
                 IF rateLimits[p].requests >= maxRequestsPerHour
                 THEN last' = RateLimited /\ rateLimits'[p] = rateLimits[p]
                 ELSE /\ last' # RateLimited
                      /\ rateLimits'[p].requests = rateLimits[p].requests + 1
                      /\ rateLimits'[p].resetTime = rateLimits[p].resetTime]_vars

\* a request to facebook was turned away with the counter at the maximum,
\* inside the window, while the counter of instagram is below it
C33_Witness ==
  /\ last = RateLimited
  /\ rateLimits["facebook"].requests = maxRequestsPerHour
  /\ now <= rateLimits["facebook"].resetTime
  /\ rateLimits["instagram"].requests \in 1..(maxRequestsPerHour - 1)

\* C34: updateHealthStatus changes the overall status only from running to
\* degraded: a sample taken when the status is starting, error, degraded or
\* shutting_down leaves the status as it is and only refreshes uptime and
\* lastCheck, so the health monitor never overwrites shutting_down.
C34_OnlyRunningDowngraded ==
  [][Sample =>
       /\ healthStatus.status # "running" =>
            healthStatus'.status = healthStatus.status
       /\ healthStatus'.status # healthStatus.status =>
            healthStatus.status = "running" /\ healthStatus'.status = "degraded"
       /\ healthStatus'.metaClient = healthStatus.metaClient
       /\ healthStatus'.uptime = now \div 1000
       /\ healthStatus'.lastCheck = now]_vars

\* a sample was taken during shutdown with no healthy platform client and
\* the status is still shutting_down
C34_Witness ==
  /\ healthStatus.status = "shutting_down"
  /\ healthStatus.metaClient = "error"
  /\ now > 0
  /\ healthStatus.lastCheck = now

====
